---- MODULE Spec2Model ----
(***************************************************************************)
(* echo-sports: the streaming AIComponent and its lazy partial-JSON parser *)
(* tryParsePartialJSON.                                                    *)
(*                                                                         *)
(* A text is a sequence of symbols.  The nine characters the parser and    *)
(* JSON.parse treat specially are one symbol each; a maximal run of other  *)
(* characters (a word such as summary, NFL, Loading...) is one symbol.     *)
(***************************************************************************)
EXTENDS Integers, Sequences, FiniteSets, TLC

LBrace    == "{"
RBrace    == "}"
LBrack    == "["
RBrack    == "]"
Quote     == "\""
Backslash == "\\"
Colon     == ":"
Comma     == ","
Space     == " "
Newline   == "\n"

(***************************************************************************)
(* JavaScript values.                                                      *)
(***************************************************************************)
Str(s)    == [t |-> "str", s |-> s]
Arr(a)    == [t |-> "arr", a |-> a]
Obj(m)    == [t |-> "obj", m |-> m]
Bool(b)   == [t |-> "bool", b |-> b]
Null      == [t |-> "null"]
Undefined == [t |-> "undefined"]

\* The string literal 'Loading...' of the source.
Sentinel == <<"Loading...">>

\* JavaScript truthiness, as tested by if (v) and by v && w.
Truthy(v) ==
    CASE v.t = "null"      -> FALSE
      [] v.t = "undefined" -> FALSE
      [] v.t = "str"       -> v.s # <<>>
      [] v.t = "bool"      -> v.b
      [] OTHER             -> TRUE

RECURSIVE Lookup(_, _, _)
Lookup(m, key, i) ==
    IF i > Len(m) THEN Undefined
    ELSE IF m[i][1] = key THEN m[i][2]
    ELSE Lookup(m, key, i + 1)

\* Property access v.key on a non-null value.
Get(v, key) == IF v.t = "obj" THEN Lookup(v.m, <<key>>, 1) ELSE Undefined

\* As OrElse, for a ?? b.
OrElseNullish(a, b) == IF a.t \in {"null", "undefined"} THEN b ELSE a

\* a || b
OrElse(a, b) == IF Truthy(a) THEN a ELSE b

\* v !== 'literal'
StrictNotEqual(v, lit) == v.t # "str" \/ v.s # lit

(***************************************************************************)
(* JSON.parse.  ok = FALSE stands for the SyntaxError it throws.           *)
(***************************************************************************)
Fail == [ok |-> FALSE, val |-> Undefined, pos |-> 0]
Ok(v, p) == [ok |-> TRUE, val |-> v, pos |-> p]

RECURSIVE SkipWs(_, _)
SkipWs(text, i) ==
    IF i <= Len(text) /\ text[i] \in {Space, Newline} THEN SkipWs(text, i + 1) ELSE i

\* The characters of a string literal whose opening quote precedes position i.
RECURSIVE ParseChars(_, _, _)
ParseChars(text, i, acc) ==
    IF i > Len(text) THEN Fail
    ELSE IF text[i] = Quote THEN Ok(Str(acc), i + 1)
    ELSE IF text[i] = Newline THEN Fail
    ELSE IF text[i] = Backslash THEN
        IF i + 1 > Len(text) THEN Fail
        ELSE IF text[i + 1] \in {Quote, Backslash} THEN
            ParseChars(text, i + 2, Append(acc, text[i + 1]))
        ELSE IF text[i + 1] = "n" THEN ParseChars(text, i + 2, Append(acc, Newline))
        ELSE Fail
    ELSE ParseChars(text, i + 1, Append(acc, text[i]))

\* A property assignment: a repeated key keeps its place and takes the new value.
RECURSIVE Put(_, _, _, _)
Put(m, key, v, i) ==
    IF i > Len(m) THEN Append(m, <<key, v>>)
    ELSE IF m[i][1] = key THEN [m EXCEPT ![i] = <<key, v>>]
    ELSE Put(m, key, v, i + 1)

RECURSIVE ParseValue(_, _)
RECURSIVE ParseMembers(_, _, _)
RECURSIVE ParseElements(_, _, _)

ParseValue(text, i0) ==
    LET i == SkipWs(text, i0) IN
    IF i > Len(text) THEN Fail
    ELSE CASE text[i] = Quote  -> ParseChars(text, i + 1, <<>>)
           [] text[i] = LBrace ->
                LET j == SkipWs(text, i + 1) IN
                IF j <= Len(text) /\ text[j] = RBrace THEN Ok(Obj(<<>>), j + 1)
                ELSE ParseMembers(text, j, <<>>)
           [] text[i] = LBrack ->
                LET j == SkipWs(text, i + 1) IN
                IF j <= Len(text) /\ text[j] = RBrack THEN Ok(Arr(<<>>), j + 1)
                ELSE ParseElements(text, j, <<>>)
           [] text[i] = "null"  -> Ok(Null, i + 1)
           [] text[i] = "true"  -> Ok(Bool(TRUE), i + 1)
           [] text[i] = "false" -> Ok(Bool(FALSE), i + 1)
           [] OTHER -> Fail

ParseMembers(text, i, acc) ==
    IF i > Len(text) \/ text[i] # Quote THEN Fail
    ELSE LET k == ParseChars(text, i + 1, <<>>) IN
    IF ~k.ok THEN Fail
    ELSE LET c == SkipWs(text, k.pos) IN
    IF c > Len(text) \/ text[c] # Colon THEN Fail
    ELSE LET v == ParseValue(text, c + 1) IN
    IF ~v.ok THEN Fail
    ELSE LET n == SkipWs(text, v.pos)
             m == Put(acc, k.val.s, v.val, 1) IN
    IF n > Len(text) THEN Fail
    ELSE IF text[n] = RBrace THEN Ok(Obj(m), n + 1)
    ELSE IF text[n] = Comma THEN ParseMembers(text, SkipWs(text, n + 1), m)
    ELSE Fail

ParseElements(text, i, acc) ==
    LET v == ParseValue(text, i) IN
    IF ~v.ok THEN Fail
    ELSE LET n == SkipWs(text, v.pos)
             a == Append(acc, v.val) IN
    IF n > Len(text) THEN Fail
    ELSE IF text[n] = RBrack THEN Ok(Arr(a), n + 1)
    ELSE IF text[n] = Comma THEN ParseElements(text, n + 1, a)
    ELSE Fail

JSONparse(text) ==
    LET v == ParseValue(text, 1) IN
    IF v.ok /\ SkipWs(text, v.pos) > Len(text)
    THEN [ok |-> TRUE, val |-> v.val]
    ELSE [ok |-> FALSE, val |-> Undefined]

(***************************************************************************)
(* The regular expressions of tryParsePartialJSON, matched the way the     *)
(* backtracking matcher matches them: leftmost start, greedy quantifiers   *)
(* giving back one symbol at a time, lazy quantifiers taking one at a      *)
(* time.  An end index of 0 stands for "no match".                         *)
(***************************************************************************)
NoMatch == [found |-> FALSE, cap |-> <<>>]
Match(c) == [found |-> TRUE, cap |-> c]

\* [^"]* taken greedily from i: the index just past the run.
RECURSIVE NotQuoteRun(_, _)
NotQuoteRun(text, i) ==
    IF i <= Len(text) /\ text[i] # Quote THEN NotQuoteRun(text, i + 1) ELSE i

\* [^}]* taken greedily from i: the index just past the run.
RECURSIVE NotRBraceRun(_, _)
NotRBraceRun(text, i) ==
    IF i <= Len(text) /\ text[i] # RBrace THEN NotRBraceRun(text, i + 1) ELSE i

\* [\s\S]*?(?:\]|$) from i: the index of the first ] or, without one, the end.
RECURSIVE LazyToRBrack(_, _)
LazyToRBrack(text, i) ==
    IF i <= Len(text) /\ text[i] # RBrack THEN LazyToRBrack(text, i + 1) ELSE i

\* (?:\\.[^"]*)*" at e (EscTail), after a [^"]* that began at lo and now ends
\* before e (EscRun): the index of the closing quote, or 0.
RECURSIVE EscTail(_, _)
RECURSIVE EscRun(_, _, _)
EscRun(text, lo, e) ==
    LET r == EscTail(text, e) IN
    IF r # 0 THEN r
    ELSE IF e > lo THEN EscRun(text, lo, e - 1)
    ELSE 0

EscTail(text, e) ==
    LET more == IF e + 1 <= Len(text) /\ text[e] = Backslash /\ text[e + 1] # Newline
                THEN EscRun(text, e + 2, NotQuoteRun(text, e + 2))
                ELSE 0 IN
    IF more # 0 THEN more
    ELSE IF e <= Len(text) /\ text[e] = Quote THEN e
    ELSE 0

\* ([^"]*(?:\\.[^"]*)*)" from i: the index of the closing quote, or 0.
QuotedBody(text, i) == EscRun(text, i, NotQuoteRun(text, i))

\* "key"\s*:\s* followed by the symbol open, at i: the index just past open, or 0.
KeyAt(text, i, key, open) ==
    IF i + 2 <= Len(text) /\ text[i] = Quote /\ text[i + 1] = key /\ text[i + 2] = Quote
    THEN LET c == SkipWs(text, i + 3) IN
         IF c <= Len(text) /\ text[c] = Colon
         THEN LET q == SkipWs(text, c + 1) IN
              IF q <= Len(text) /\ text[q] = open THEN q + 1 ELSE 0
         ELSE 0
    ELSE 0

\* text.match(/"key"\s*:\s*"([^"]*(?:\\.[^"]*)*)"/), scanning from i.
RECURSIVE MatchEscapedField(_, _, _)
MatchEscapedField(text, key, i) ==
    IF i > Len(text) THEN NoMatch
    ELSE LET s == KeyAt(text, i, key, Quote)
             e == IF s # 0 THEN QuotedBody(text, s) ELSE 0 IN
         IF e # 0 THEN Match(SubSeq(text, s, e - 1))
         ELSE MatchEscapedField(text, key, i + 1)

\* text.match(/"key"\s*:\s*"([^"]*)"/), scanning from i.
RECURSIVE MatchPlainField(_, _, _)
MatchPlainField(text, key, i) ==
    IF i > Len(text) THEN NoMatch
    ELSE LET s == KeyAt(text, i, key, Quote)
             e == IF s # 0 THEN NotQuoteRun(text, s) ELSE 0 IN
         IF e # 0 /\ e <= Len(text) THEN Match(SubSeq(text, s, e - 1))
         ELSE MatchPlainField(text, key, i + 1)

\* text.match(/"key"\s*:\s*\[([\s\S]*?)(?:\]|$)/), scanning from i.
RECURSIVE MatchArrayField(_, _, _)
MatchArrayField(text, key, i) ==
    IF i > Len(text) THEN NoMatch
    ELSE LET s == KeyAt(text, i, key, LBrack) IN
         IF s # 0 THEN Match(SubSeq(text, s, LazyToRBrack(text, s) - 1))
         ELSE MatchArrayField(text, key, i + 1)

\* .replace(/\\"/g, '"')
RECURSIVE ReplaceEscapedQuotes(_)
ReplaceEscapedQuotes(s) ==
    IF s = <<>> THEN <<>>
    ELSE IF Len(s) >= 2 /\ s[1] = Backslash /\ s[2] = Quote
    THEN <<Quote>> \o ReplaceEscapedQuotes(SubSeq(s, 3, Len(s)))
    ELSE <<s[1]>> \o ReplaceEscapedQuotes(Tail(s))

summaryMatch(text) == MatchEscapedField(text, "summary", 1)
eventsMatch(text) == MatchArrayField(text, "events", 1)
barTalkMatch(text) == MatchArrayField(text, "barTalk", 1)
categoryMatch(eventStr) == MatchPlainField(eventStr, "category", 1)
headlineMatch(eventStr) == MatchEscapedField(eventStr, "headline", 1)
descriptionMatch(eventStr) == MatchEscapedField(eventStr, "description", 1)
significanceMatch(eventStr) == MatchPlainField(eventStr, "significance", 1)

HeadlineAt(text, p) ==
    p + 2 <= Len(text) /\ text[p] = Quote /\ text[p + 1] = "headline" /\ text[p + 2] = Quote

\* [^}]*"headline"[^}]*\} after a { : the first [^}]* began at lo and now ends
\* before p.  The index of the closing brace, or 0.
RECURSIVE HeadlineSplit(_, _, _)
HeadlineSplit(text, lo, p) ==
    LET e == NotRBraceRun(text, p + 3) IN
    IF HeadlineAt(text, p) /\ e <= Len(text) THEN e
    ELSE IF p > lo THEN HeadlineSplit(text, lo, p - 1)
    ELSE 0

\* As EventSpanEnd, with the end of the text taken for a closing brace.
EventSpanEndLoose(text, i) ==
    IF text[i] # LBrace THEN 0
    ELSE LET p == NotRBraceRun(text, i + 1) IN
         IF \E h \in (i + 1)..(p - 3) : HeadlineAt(text, h)
         THEN (IF p <= Len(text) THEN p ELSE Len(text))
         ELSE 0

EventSpanEnd(text, i) ==
    IF text[i] # LBrace THEN 0
    ELSE HeadlineSplit(text, i + 1, NotRBraceRun(text, i + 1))

\* eventsStr.match(/\{[^}]*"headline"[^}]*\}/g) || [], scanning from i.
RECURSIVE EventMatchesFrom(_, _)
EventMatchesFrom(eventsStr, i) ==
    IF i > Len(eventsStr) THEN <<>>
    ELSE LET e == EventSpanEnd(eventsStr, i) IN
         IF e # 0 THEN <<SubSeq(eventsStr, i, e)>> \o EventMatchesFrom(eventsStr, e + 1)
         ELSE EventMatchesFrom(eventsStr, i + 1)

eventMatches(eventsStr) == EventMatchesFrom(eventsStr, 1)

\* barTalkStr.match(/"([^"]*(?:\\.[^"]*)*)"/g) || [], scanning from i.
RECURSIVE TalkMatchesFrom(_, _)
TalkMatchesFrom(barTalkStr, i) ==
    IF i > Len(barTalkStr) THEN <<>>
    ELSE LET e == IF barTalkStr[i] = Quote THEN QuotedBody(barTalkStr, i + 1) ELSE 0 IN
         IF e # 0 THEN <<SubSeq(barTalkStr, i, e)>> \o TalkMatchesFrom(barTalkStr, e + 1)
         ELSE TalkMatchesFrom(barTalkStr, i + 1)

talkMatches(barTalkStr) == TalkMatchesFrom(barTalkStr, 1)

(***************************************************************************)
(* tryParsePartialJSON.  An outcome is a returned value or a thrown error. *)
(***************************************************************************)
Return(v) == [thrown |-> FALSE, val |-> v]
Throw == [thrown |-> TRUE, val |-> Undefined]

\* m?.[1] of a field match, with .replace(/\\"/g, '"') where the source applies it.
Captured(m) == IF m.found THEN Str(m.cap) ELSE Undefined
\* As CapturedUnescaped, with an empty capture taken for no match.
CapturedUnescapedNonEmpty(m) ==
    IF m.found /\ m.cap # <<>> THEN Str(ReplaceEscapedQuotes(m.cap)) ELSE Undefined

CapturedUnescaped(m) == IF m.found THEN Str(ReplaceEscapedQuotes(m.cap)) ELSE Undefined

\* The catch branch of the map callback: the four fields extracted one by one.
ExtractFields(eventStr) ==
    Obj(<< <<<<"category">>, OrElse(Captured(categoryMatch(eventStr)), Str(<<"Other">>))>>,
           <<<<"headline">>,
             OrElse(CapturedUnescaped(headlineMatch(eventStr)), Str(Sentinel))>>,
           <<<<"description">>,
             OrElse(CapturedUnescaped(descriptionMatch(eventStr)), Str(Sentinel))>>,
           <<<<"significance">>,
             OrElse(Captured(significanceMatch(eventStr)), Str(<<"Medium">>))>> >>)

\* The map callback: JSON.parse(eventStr), or the extracted fields when it throws.
EventOf(eventStr) ==
    LET p == JSONparse(eventStr) IN
    IF p.ok THEN p.val ELSE ExtractFields(eventStr)

\* .filter(event => event.headline !== 'Loading...')
KeepEvent(event) == StrictNotEqual(Get(event, "headline"), Sentinel)

ExtractEvents(text) ==
    LET m == eventsMatch(text) IN
    IF m.found
    THEN LET spans == eventMatches(m.cap)
             mapped == [k \in 1..Len(spans) |-> EventOf(spans[k])] IN
         SelectSeq(mapped, KeepEvent)
    ELSE <<>>

ExtractBarTalk(text) ==
    LET m == barTalkMatch(text) IN
    IF m.found
    THEN LET ms == talkMatches(m.cap) IN
         [k \in 1..Len(ms) |->
            Str(ReplaceEscapedQuotes(SubSeq(ms[k], 2, Len(ms[k]) - 1)))]
    ELSE <<>>

\* The inner try block: { summary, events, barTalk }.
SalvagePartial(text) ==
    Return(Obj(<< <<<<"summary">>, CapturedUnescaped(summaryMatch(text))>>,
                  <<<<"events">>, Arr(ExtractEvents(text))>>,
                  <<<<"barTalk">>, Arr(ExtractBarTalk(text))>> >>))

\* As tryParsePartialJSON, with the events filter applied to the strict decode too.
tryParsePartialJSONFiltering(text) ==
    LET strict == JSONparse(text) IN
    IF strict.ok
    THEN (IF strict.val.t = "obj" /\ Get(strict.val, "events").t = "arr"
          THEN Return(Obj(Put(strict.val.m, <<"events">>,
                              Arr(SelectSeq(Get(strict.val, "events").a, KeepEvent)), 1)))
          ELSE Return(strict.val))
    ELSE SalvagePartial(text)

\* As tryParsePartialJSON, without the catch around JSON.parse.
tryParsePartialJSONUncaught(text) ==
    LET strict == JSONparse(text) IN
    IF strict.ok THEN Return(strict.val) ELSE Throw

tryParsePartialJSON(text) ==
    LET strict == JSONparse(text) IN
    IF strict.ok THEN Return(strict.val)
    ELSE LET s == SalvagePartial(text) IN
         IF s.thrown THEN Return(Null) ELSE s

(***************************************************************************)
(* The text the model is asked to send (the JSON format of the prompt),    *)
(* and the documents the checked streams are drawn from.                   *)
(***************************************************************************)
MaxEvents == 2
MaxTalk == 1
MaxChunk == 2
MaxRequests == 2

SeqUpTo(S, n) == UNION {[1..k -> S] : k \in 0..n}

Event(c, h, d, g, tm) ==
    [category |-> c, headline |-> h, description |-> d, significance |-> g, teams |-> tm]
Doc(f, s, es, bt) == [form |-> f, summary |-> s, events |-> es, barTalk |-> bt]

PlainEvent    == Event(<<"NFL">>, <<"TeamA">>, <<"d">>, <<"High">>, <<>>)
SentinelEvent == Event(<<"NBA">>, Sentinel, <<"d">>, <<"Low">>, <<>>)
TeamsEvent    == Event(<<"MLB">>, <<"TeamB">>, <<"d">>, <<"Medium">>, << <<"A">>, <<"B">> >>)
BraceEvent    == Event(<<"NHL">>, <<"x", Quote, "y">>, <<"d", RBrace>>, <<"Low">>, <<>>)
EmptyEvent    == Event(<<>>, <<"TeamC">>, <<"d", RBrace>>, <<"Low">>, <<>>)
OddEvent      == Event(<<"Cricket">>, <<"TeamD">>, <<"d">>, <<"Huge">>, <<>>)
EventPool == {PlainEvent, SentinelEvent, TeamsEvent, BraceEvent, EmptyEvent, OddEvent}
TalkPool == {<<"Wow">>, <<"x", Quote, "y">>}
Summaries == {<<"NFL">>, <<>>, <<"x", Quote, "y">>, <<"x", Backslash, "y">>}

BaseSummary == <<"NFL">>
BaseEvents == <<PlainEvent>>
BaseTalk == <<<<"Wow">>>>

\* full: the document of the prompt; noBarTalk: the same without its barTalk key;
\* prose: words before the document; null, emptyString: the JSON texts null and "".
OtherForms == {"noBarTalk", "prose", "null", "emptyString"}

\* Event lists: one event of the pool, before or after plain events.
Plains(k) == [i \in 1..k |-> PlainEvent]
EventLists ==
    {<<>>}
    \cup {<<e>> \o Plains(k) : e \in EventPool, k \in 0..(MaxEvents - 1)}
    \cup {Plains(k) \o <<e>> : e \in EventPool, k \in 0..(MaxEvents - 1)}

Docs ==
    {Doc("full", s, BaseEvents, BaseTalk) : s \in Summaries}
    \cup {Doc("full", BaseSummary, es, BaseTalk) : es \in EventLists}
    \cup {Doc("full", BaseSummary, BaseEvents, bt) : bt \in SeqUpTo(TalkPool, MaxTalk)}
    \cup {Doc(f, BaseSummary, BaseEvents, BaseTalk) : f \in OtherForms}

NoDoc == Doc("none", <<>>, <<>>, <<>>)

\* The characters of a string as JSON writes them between quotes.
RECURSIVE Escape(_)
Escape(s) ==
    IF s = <<>> THEN <<>>
    ELSE (CASE s[1] = Quote     -> <<Backslash, Quote>>
            [] s[1] = Backslash -> <<Backslash, Backslash>>
            [] s[1] = Newline   -> <<Backslash, "n">>
            [] OTHER            -> <<s[1]>>) \o Escape(Tail(s))

QuotedText(s) == <<Quote>> \o Escape(s) \o <<Quote>>

RECURSIVE Joined(_, _)
Joined(parts, sep) ==
    IF parts = <<>> THEN <<>>
    ELSE IF Len(parts) = 1 THEN parts[1]
    ELSE parts[1] \o sep \o Joined(Tail(parts), sep)

ArrayText(items, sep) == <<LBrack>> \o Joined(items, sep) \o <<RBrack>>
StringsText(ss) == ArrayText([k \in 1..Len(ss) |-> QuotedText(ss[k])], <<Comma>>)
Member(key, valueText) == <<Quote, key, Quote, Colon>> \o valueText
TopMember(key, valueText) == <<Quote, key, Quote, Colon, Space>> \o valueText

EventText(e) ==
    <<LBrace>>
    \o Joined(<< Member("category", QuotedText(e.category)),
                 Member("headline", QuotedText(e.headline)),
                 Member("description", QuotedText(e.description)),
                 Member("significance", QuotedText(e.significance)) >>
              \o (IF e.teams = <<>> THEN <<>>
                  ELSE << Member("teams", StringsText(e.teams)) >>),
              <<Comma>>)
    \o <<RBrace>>

EventsText(es) == ArrayText([k \in 1..Len(es) |-> EventText(es[k])], <<Comma>>)

SummaryMember(d) == TopMember("summary", QuotedText(d.summary))
EventsMember(d) == TopMember("events", EventsText(d.events))
BarTalkMember(d) == TopMember("barTalk", StringsText(d.barTalk))

FullText(d) ==
    <<LBrace>>
    \o Joined(<<SummaryMember(d), EventsMember(d), BarTalkMember(d)>>, <<Comma, Space>>)
    \o <<RBrace>>

Serialize(d) ==
    CASE d.form = "full"        -> FullText(d)
      [] d.form = "noBarTalk"   ->
            <<LBrace>> \o Joined(<<SummaryMember(d), EventsMember(d)>>, <<Comma, Space>>)
            \o <<RBrace>>
      [] d.form = "prose"       -> <<"Here", Colon, Space>> \o FullText(d)
      [] d.form = "null"        -> <<Space, "null">>
      [] d.form = "emptyString" -> <<Quote, Quote>>
      [] OTHER                  -> <<>>

\* The value a document denotes.
StringsValue(ss) == Arr([k \in 1..Len(ss) |-> Str(ss[k])])

EventValue(e) ==
    Obj(<< <<<<"category">>, Str(e.category)>>,
           <<<<"headline">>, Str(e.headline)>>,
           <<<<"description">>, Str(e.description)>>,
           <<<<"significance">>, Str(e.significance)>> >>
        \o (IF e.teams = <<>> THEN <<>> ELSE << <<<<"teams">>, StringsValue(e.teams)>> >>))

EventsValue(es) == Arr([k \in 1..Len(es) |-> EventValue(es[k])])

DocValue(d) ==
    Obj(<< <<<<"summary">>, Str(d.summary)>>,
           <<<<"events">>, EventsValue(d.events)>>,
           <<<<"barTalk">>, StringsValue(d.barTalk)>> >>)

\* Every buffer a stream of the documents can accumulate, and the Recoverer's
\* return on each of them (tryParsePartialJSON, tabulated).
Prefixes(text) == {SubSeq(text, 1, i) : i \in 0..Len(text)}
Buffers == {b \in UNION {Prefixes(Serialize(d)) : d \in Docs} : TRUE}
Recoveries == [text \in Buffers |-> tryParsePartialJSON(text)]
Recover(text) == Recoveries[text]

(***************************************************************************)
(* AIComponent: the React state, and the calls of handleSportsSearch.      *)
(***************************************************************************)
VARIABLES
    sportsNews,     \* useState<SportsNews | null>(null)
    partialData,    \* useState<Partial<SportsNews> | null>(null)
    loading,        \* useState(false)
    error,          \* useState<string | null>(null)
    calls,          \* the calls of handleSportsSearch, with their locals
    started,        \* how many calls have been started
    writer          \* the call that made the latest state update (0: none yet)

vars == <<sportsNews, partialData, loading, error, calls, started, writer>>

Requests == 1..MaxRequests

\* What is thrown: new Error(message), or an object that is not an Error.
NewError(message) == [isError |-> TRUE, message |-> message]
NotAnError(message) == [isError |-> FALSE, message |-> message]

\* What the transport can throw: an Error naming the web search, another Error,
\* and an object that is not an Error.
WebSearchFailure == <<"Web search failed", ": rate limited">>
GenericFailure == <<"network down">>
TransportErrors ==
    {NewError(WebSearchFailure), NewError(GenericFailure), NotAnError(WebSearchFailure)}
IncompleteFailure == <<"Failed to parse complete structured response">>
RecovererFailure == <<"exception in tryParsePartialJSON">>

\* error.message.includes('Web search failed')
IncludesWebSearchFailed(message) ==
    \E i \in 1..Len(message) : message[i] = "Web search failed"

\* As IsWebSearchError, with the test of the catch block always failing.
IsNeverWebSearchError(thrown) == FALSE

\* error instanceof Error && error.message.includes('Web search failed')
IsWebSearchError(thrown) == thrown.isError /\ IncludesWebSearchFailed(thrown.message)

\* The catch block: the text handed to setError for what was thrown.
CatchText(thrown) ==
    IF IsWebSearchError(thrown)
    THEN Str(<<"Web search error: ">> \o thrown.message)
    ELSE Str(<<"Error fetching sports news: ">> \o thrown.message)

\* The text handed to setError for an Error with the message.
ErrorText(message) == CatchText(NewError(message))

\* A call: where it is (pc), the document the model answers with (doc), what
\* of it is still to arrive (textStream), accumulatedText, the Recoverer's
\* latest return in the loop (partialParsed), how the call ended (outcome), what
\* its catch block caught (caught) and how many times the Recoverer has been
\* called since accumulatedText last changed (invocations).
Idle == [pc |-> "idle", doc |-> NoDoc, textStream |-> <<>>, accumulatedText |-> <<>>,
         partialParsed |-> Return(Undefined), outcome |-> "none",
         caught |-> NotAnError(<<>>), invocations |-> 0]
Gone == [Idle EXCEPT !.pc = "done"]

Init ==
    /\ sportsNews = Null
    /\ partialData = Null
    /\ loading = FALSE
    /\ error = Null
    /\ calls = [r \in Requests |-> Idle]
    /\ started = 0
    /\ writer = 0

\* As ButtonEnabled, without the disabled attribute.
ButtonAlwaysEnabled == TRUE

\* disabled={loading} on the Generate Report button.
ButtonEnabled == ~loading

\* The locals of a call that has returned are dropped when the next call starts.
Collected(c) == IF c.pc = "done" THEN Gone ELSE c

\* A click: handleSportsSearch up to its first await.
Click ==
    /\ ButtonEnabled
    /\ started < MaxRequests
    /\ started' = started + 1
    /\ loading' = TRUE
    /\ error' = Null
    /\ sportsNews' = Null
    /\ partialData' = Null
    /\ calls' = [r \in Requests |->
                    IF r = started + 1 THEN [Idle EXCEPT !.pc = "streamText"]
                    ELSE Collected(calls[r])]
    /\ writer' = started + 1

\* await streamText(...) returns; let accumulatedText = ''.
StreamOpen(r) ==
    /\ calls[r].pc = "streamText"
    /\ \E d \in Docs :
          calls' = [calls EXCEPT ![r] = [Idle EXCEPT !.pc = "loop", !.doc = d,
                                                     !.textStream = Serialize(d)]]
    /\ UNCHANGED <<sportsNews, partialData, loading, error, started, writer>>

\* As Caught, with the partial result cleared in the catch block.
CaughtClearingPartial(r, thrown, how, invoked) ==
    /\ error' = CatchText(thrown)
    /\ loading' = FALSE
    /\ partialData' = Null
    /\ calls' = [calls EXCEPT ![r].pc = "done", ![r].outcome = how, ![r].caught = thrown,
                              ![r].invocations = @ + invoked]
    /\ writer' = r
    /\ UNCHANGED <<sportsNews, started>>

\* As Caught, without the finally block.
CaughtWithoutFinally(r, thrown, how, invoked) ==
    /\ error' = CatchText(thrown)
    /\ calls' = [calls EXCEPT ![r].pc = "done", ![r].outcome = how, ![r].caught = thrown,
                              ![r].invocations = @ + invoked]
    /\ writer' = r
    /\ UNCHANGED <<sportsNews, partialData, loading, started>>

\* catch and finally, for what was thrown, after invoked more calls of the
\* Recoverer in the try block.
Caught(r, thrown, how, invoked) ==
    /\ error' = CatchText(thrown)
    /\ loading' = FALSE
    /\ calls' = [calls EXCEPT ![r].pc = "done", ![r].outcome = how, ![r].caught = thrown,
                              ![r].invocations = @ + invoked]
    /\ writer' = r
    /\ UNCHANGED <<sportsNews, partialData, started>>

\* await streamText(...) or the stream's next chunk throws.
TransportFail(r) ==
    /\ calls[r].pc \in {"streamText", "loop"}
    /\ \E thrown \in TransportErrors : Caught(r, thrown, "transport", 0)

\* As Surfaced, without the test.
SurfacedAlways(partialParsed) == TRUE

\* if (partialParsed) of the loop body.
Surfaced(partialParsed) == Truthy(partialParsed)

\* The loop body, for the buffer after accumulatedText += chunk and the
\* Recoverer's return on it.
LoopBody(r, n, buffer, partialParsed) ==
    IF partialParsed.thrown
    THEN Caught(r, NewError(RecovererFailure), "threw", 1)
    ELSE /\ calls' = [calls EXCEPT ![r].accumulatedText = buffer,
                                   ![r].textStream = SubSeq(@, n + 1, Len(@)),
                                   ![r].partialParsed = partialParsed,
                                   ![r].invocations = 1]
         /\ IF Surfaced(partialParsed.val)
            THEN partialData' = partialParsed.val /\ writer' = r
            ELSE UNCHANGED <<partialData, writer>>
         /\ UNCHANGED <<sportsNews, loading, error, started>>

\* As Received, without the call of the Recoverer.
ReceivedUnparsed(r, n, buffer) ==
    /\ calls' = [calls EXCEPT ![r].accumulatedText = buffer,
                              ![r].textStream = SubSeq(@, n + 1, Len(@)),
                              ![r].invocations = 0]
    /\ UNCHANGED <<sportsNews, partialData, loading, error, started, writer>>

Received(r, n, buffer) == LoopBody(r, n, buffer, Recover(buffer))

\* One iteration of the for await loop: the next chunk, of n symbols.
Fragment(r) ==
    /\ calls[r].pc = "loop"
    /\ \E n \in 1..MaxChunk :
          /\ n <= Len(calls[r].textStream)
          /\ Received(r, n, calls[r].accumulatedText \o SubSeq(calls[r].textStream, 1, n))

\* As Complete, with an empty events array taken for a missing one.
CompleteNonEmpty(finalParsed) ==
    /\ Truthy(finalParsed)
    /\ Truthy(Get(finalParsed, "summary"))
    /\ Get(finalParsed, "events") \notin {Undefined, Null, Arr(<<>>)}
    /\ Truthy(Get(finalParsed, "barTalk"))

\* As Complete, without the barTalk conjunct.
CompleteWithoutBarTalk(finalParsed) ==
    /\ Truthy(finalParsed)
    /\ Truthy(Get(finalParsed, "summary"))
    /\ Truthy(Get(finalParsed, "events"))

\* finalParsed && finalParsed.summary && finalParsed.events && finalParsed.barTalk
Complete(finalParsed) ==
    /\ Truthy(finalParsed)
    /\ Truthy(Get(finalParsed, "summary"))
    /\ Truthy(Get(finalParsed, "events"))
    /\ Truthy(Get(finalParsed, "barTalk"))

\* The final parsing attempt, for the Recoverer's return, then finally.
FinalAttempt(r, finalParsed) ==
    IF finalParsed.thrown
    THEN Caught(r, NewError(RecovererFailure), "threw", 1)
    ELSE IF Complete(finalParsed.val)
    THEN /\ sportsNews' = finalParsed.val
         /\ partialData' = Null
         /\ loading' = FALSE
         /\ calls' = [calls EXCEPT ![r].pc = "done", ![r].outcome = "final",
                                   ![r].invocations = @ + 1]
         /\ writer' = r
         /\ UNCHANGED <<error, started>>
    ELSE Caught(r, NewError(IncompleteFailure), "incomplete", 1)

\* The stream ends.
EndOfStream(r) ==
    /\ calls[r].pc = "loop"
    /\ FinalAttempt(r, Recover(calls[r].accumulatedText))

\* significanceOrder[event.significance] of the sort callback; 0 stands for
\* undefined, which makes the callback's difference NaN (taken as equal).
significanceOrder(event) ==
    LET g == Get(event, "significance") IN
    CASE g = Str(<<"High">>)   -> 3
      [] g = Str(<<"Medium">>) -> 2
      [] g = Str(<<"Low">>)    -> 1
      [] OTHER                 -> 0

\* The sort callback (a, b) => significanceOrder[b.significance] -
\* significanceOrder[a.significance], as the sign the sort sees.
CompareBySignificance(a, b) ==
    IF significanceOrder(a) = 0 \/ significanceOrder(b) = 0 THEN 0
    ELSE significanceOrder(b) - significanceOrder(a)

\* The record goes after every record the callback does not put behind it.
RECURSIVE InsertSorted(_, _)
InsertSorted(sorted, event) ==
    IF sorted = <<>> THEN <<event>>
    ELSE IF CompareBySignificance(Head(sorted), event) <= 0
    THEN <<Head(sorted)>> \o InsertSorted(Tail(sorted), event)
    ELSE <<event>> \o sorted

RECURSIVE StableSort(_)
StableSort(events) ==
    IF events = <<>> THEN <<>>
    ELSE InsertSorted(StableSort(SubSeq(events, 1, Len(events) - 1)), events[Len(events)])

\* The callback orders the records consistently: equal is transitive.
ConsistentComparator(events) ==
    \/ \A k \in 1..Len(events) : significanceOrder(events[k]) # 0
    \/ \A j, k \in 1..Len(events) : CompareBySignificance(events[j], events[k]) = 0

\* What Array.prototype.sort can leave in the array: the stable order, or, with
\* an inconsistent callback, an order the engine chooses.
SortOutcomes(events) ==
    IF ConsistentComparator(events) THEN {StableSort(events)}
    ELSE {[k \in 1..Len(events) |-> events[p[k]]] : p \in Permutations(1..Len(events))}

\* The array of v.events, put back in the same object.
WithEvents(v, events) == Obj(Put(v.m, <<"events">>, Arr(events), 1))

\* .sort(...) on the array of v.events: the object v afterwards.
SortInPlace(v, events) == WithEvents(v, events)

\* A render of the events grid:
\* (sportsNews?.events || partialData?.events || []).sort(...).map(...)
\* React renders after a state update, between the steps of the handler.
Render ==
    /\ IF Truthy(Get(sportsNews, "events"))
       THEN /\ Get(sportsNews, "events").t = "arr"
            /\ \E sorted \in SortOutcomes(Get(sportsNews, "events").a) :
                  sportsNews' = SortInPlace(sportsNews, sorted)
            /\ UNCHANGED partialData
       ELSE IF Truthy(Get(partialData, "events"))
       THEN /\ Get(partialData, "events").t = "arr"
            /\ \E sorted \in SortOutcomes(Get(partialData, "events").a) :
                  partialData' = SortInPlace(partialData, sorted)
            /\ UNCHANGED sportsNews
       ELSE UNCHANGED <<sportsNews, partialData>>
    /\ UNCHANGED <<loading, error, calls, started, writer>>

Next ==
    \/ Click
    \/ Render
    \/ \E r \in Requests : StreamOpen(r)
    \/ \E r \in Requests : Fragment(r)
    \/ \E r \in Requests : EndOfStream(r)
    \/ \E r \in Requests : TransportFail(r)

Spec == Init /\ [][Next]_vars

\* A step of the call r.  The transport delivers: await streamText(...) settles,
\* and the stream, being finite, ends or fails.
Progress(r) == StreamOpen(r) \/ Fragment(r) \/ EndOfStream(r) \/ TransportFail(r)

FairSpec == Spec /\ \A r \in Requests : WF_vars(Progress(r))

(***************************************************************************)
(* The non-streaming variant of AIComponent: generateText returns the      *)
(* whole text, which is parsed once.  It has the state sportsNews, loading *)
(* and error; partialData does not exist in it and stays null.             *)
(***************************************************************************)
\* A call of the variant: where it is (pc), the text generateText returned,
\* how the call ended (outcome) and what its catch block caught (caught).
GenIdle == [pc |-> "idle", text |-> <<>>, outcome |-> "none", caught |-> NotAnError(<<>>)]
GenGone == [GenIdle EXCEPT !.pc = "done"]

GenInit ==
    /\ sportsNews = Null
    /\ partialData = Null
    /\ loading = FALSE
    /\ error = Null
    /\ calls = [r \in Requests |-> GenIdle]
    /\ started = 0
    /\ writer = 0

\* The messages of the two parse failures: the Error of the else branch, and
\* the SyntaxError of JSON.parse (its wording is the engine's).
NoSpanFailure == <<"Failed to parse structured response">>
DecoderFailure == <<"SyntaxError: not valid JSON">>

\* The index of the first { of the text and of its last }, or 0.
FirstLBrace(text) ==
    IF \E i \in 1..Len(text) : text[i] = LBrace
    THEN CHOOSE i \in 1..Len(text) :
            text[i] = LBrace /\ \A j \in 1..(i - 1) : text[j] # LBrace
    ELSE 0

LastRBrace(text) ==
    IF \E i \in 1..Len(text) : text[i] = RBrace
    THEN CHOOSE i \in 1..Len(text) :
            text[i] = RBrace /\ \A j \in (i + 1)..Len(text) : text[j] # RBrace
    ELSE 0

\* text.match(/\{[\s\S]*\}/): from the first { to the last } after it.
jsonMatch(text) ==
    IF FirstLBrace(text) # 0 /\ LastRBrace(text) > FirstLBrace(text)
    THEN Match(SubSeq(text, FirstLBrace(text), LastRBrace(text)))
    ELSE NoMatch

\* The texts generateText answers with: every document whole, and the document
\* of the prompt, bare and after words of prose, cut off at any point.
Responses ==
    {Serialize(d) : d \in Docs}
    \cup Prefixes(Serialize(Doc("full", BaseSummary, BaseEvents, BaseTalk)))
    \cup Prefixes(Serialize(Doc("prose", BaseSummary, BaseEvents, BaseTalk)))

\* A click on the button of the variant: handleSportsSearch up to its await.
GenClick ==
    /\ ButtonEnabled
    /\ started < MaxRequests
    /\ started' = started + 1
    /\ loading' = TRUE
    /\ error' = Null
    /\ sportsNews' = Null
    /\ calls' = [r \in Requests |->
                    IF r = started + 1 THEN [GenIdle EXCEPT !.pc = "generateText"]
                    ELSE IF calls[r].pc = "done" THEN GenGone ELSE calls[r]]
    /\ writer' = started + 1
    /\ UNCHANGED partialData

\* catch and finally of the variant, for what was thrown.
GenCaught(r, text, thrown, how) ==
    /\ error' = CatchText(thrown)
    /\ loading' = FALSE
    /\ calls' = [calls EXCEPT ![r] = [pc |-> "done", text |-> text, outcome |-> how,
                                      caught |-> thrown]]
    /\ writer' = r
    /\ UNCHANGED <<sportsNews, partialData, started>>

\* setSportsNews(parsedData), then finally.
GenAccepted(r, text, parsedData, how) ==
    /\ sportsNews' = parsedData
    /\ loading' = FALSE
    /\ calls' = [calls EXCEPT ![r] = [pc |-> "done", text |-> text, outcome |-> how,
                                      caught |-> NotAnError(<<>>)]]
    /\ writer' = r
    /\ UNCHANGED <<error, partialData, started>>

\* The catch (parseError) branch with a match: JSON.parse(jsonMatch[0]).
ParseSpan(r, text, extracted) ==
    IF extracted.ok
    THEN GenAccepted(r, text, extracted.val, "extracted")
    ELSE GenCaught(r, text, NewError(DecoderFailure), "decoder")

\* As ParseResponse, without the extraction fallback.
ParseResponseStrictOnly(r, text, strict, m) ==
    IF strict.ok
    THEN GenAccepted(r, text, strict.val, "whole")
    ELSE GenCaught(r, text, NewError(DecoderFailure), "decoder")

\* The inner try of the variant, for JSON.parse(text) and text.match(...).
ParseResponse(r, text, strict, m) ==
    IF strict.ok
    THEN GenAccepted(r, text, strict.val, "whole")
    ELSE IF m.found
    THEN ParseSpan(r, text, JSONparse(m.cap))
    ELSE GenCaught(r, text, NewError(NoSpanFailure), "nospan")

\* await generateText(...) returns a text.
GenerateTextReturns(r) ==
    /\ calls[r].pc = "generateText"
    /\ \E text \in Responses : ParseResponse(r, text, JSONparse(text), jsonMatch(text))

\* await generateText(...) throws.
GenerateTextFails(r) ==
    /\ calls[r].pc = "generateText"
    /\ \E thrown \in TransportErrors : GenCaught(r, <<>>, thrown, "transport")

\* A render of the variant's events grid: sportsNews.events.sort(...).map(...)
\* inside {sportsNews && (...)}.  (Without an events array the render throws;
\* the state of the handler is not changed by that.)
GenRender ==
    /\ Truthy(sportsNews)
    /\ Get(sportsNews, "events").t = "arr"
    /\ \E sorted \in SortOutcomes(Get(sportsNews, "events").a) :
          sportsNews' = SortInPlace(sportsNews, sorted)
    /\ UNCHANGED <<partialData, loading, error, calls, started, writer>>

GenNext ==
    \/ GenClick
    \/ GenRender
    \/ \E r \in Requests : GenerateTextReturns(r)
    \/ \E r \in Requests : GenerateTextFails(r)

GenSpec == GenInit /\ [][GenNext]_vars

(***************************************************************************)
(* Properties.                                                             *)
(***************************************************************************)
NonNull(v) == v.t \notin {"null", "undefined"}
HasKey(v, key) == v.t = "obj" /\ \E i \in 1..Len(v.m) : v.m[i][1] = <<key>>
Streaming(c) == c.pc = "loop" /\ c.accumulatedText # <<>>
WholeDocument(c) == c.doc.form = "full" /\ c.textStream = <<>>
\* The buffer is a proper, non-empty prefix of a serialized valid document.
ProperPrefix(c) == c.doc.form = "full" /\ c.textStream # <<>> /\ c.accumulatedText # <<>>
\* The closing quote of the summary field has been received.
SummaryStreamed(c) ==
    /\ c.doc.form \in {"full", "noBarTalk"}
    /\ Len(c.accumulatedText) >= 1 + Len(SummaryMember(c.doc))
EscapeFree(s) == \A i \in 1..Len(s) : s[i] \notin {Quote, Backslash, Newline}
EventsOf(v) == IF Get(v, "events").t = "arr" THEN Get(v, "events").a ELSE <<>>

\* C1: when the buffer is a whole valid document, the Recoverer returns exactly
\* the document's value (every event, every field, in order), in the loop and in
\* the final attempt.
FastPathExact ==
    \A r \in Requests :
        LET c == calls[r] IN
        (c.pc \in {"loop", "done"} /\ WholeDocument(c)) =>
            /\ c.partialParsed = Return(DocValue(c.doc))
            /\ Recover(c.accumulatedText) = Return(DocValue(c.doc))

FastPathExactWitness ==
    \E r \in Requests :
        LET c == calls[r] IN
        /\ c.pc = "loop" /\ WholeDocument(c)
        /\ c.doc.events = <<SentinelEvent, PlainEvent>>
        /\ c.partialParsed.val = DocValue(c.doc)

\* C2: no value returned by the Recoverer holds an event whose headline is the
\* sentinel "Loading...".
SentinelGate ==
    \A r \in Requests :
        LET c == calls[r]
            es == EventsOf(c.partialParsed.val) IN
        Streaming(c) =>
            \A k \in 1..Len(es) : Get(es[k], "headline") # Str(Sentinel)

\* C3: on a proper prefix of a valid document that holds the complete summary
\* field, the Recoverer's summary is the document's summary.
SummaryRecovered ==
    \A r \in Requests :
        LET c == calls[r] IN
        (c.pc = "loop" /\ ProperPrefix(c) /\ SummaryStreamed(c)) =>
            Get(c.partialParsed.val, "summary") = Str(c.doc.summary)

\* C4: the Recoverer returns on every buffer; no call of handleSportsSearch ends
\* on an exception of the Recoverer and no such error is displayed.
RecovererNeverThrows ==
    /\ error # ErrorText(RecovererFailure)
    /\ \A r \in Requests :
          /\ ~calls[r].partialParsed.thrown
          /\ calls[r].outcome # "threw"
          /\ calls[r].pc = "loop" => ~Recover(calls[r].accumulatedText).thrown

RecovererNeverThrowsWitness ==
    \E r \in Requests :
        LET c == calls[r] IN
        /\ Streaming(c)
        /\ c.doc.events = <<BraceEvent>>
        /\ ~JSONparse(c.accumulatedText).ok
        /\ EventsOf(c.partialParsed.val) # <<>>
        /\ partialData = c.partialParsed.val

\* C5: at the end of the stream the final result is set if and only if the
\* final recovery and its summary, events and barTalk are non-null; otherwise
\* no result is set and the completeness failure is reported.
FinalIffPresent ==
    \A r \in Requests :
        LET c == calls[r]
            finalParsed == Recover(c.accumulatedText).val
            present == /\ NonNull(finalParsed)
                       /\ NonNull(Get(finalParsed, "summary"))
                       /\ NonNull(Get(finalParsed, "events"))
                       /\ NonNull(Get(finalParsed, "barTalk")) IN
        (c.pc = "done" /\ c.outcome \in {"final", "incomplete"}) =>
            IF present
            THEN c.outcome = "final" /\ sportsNews # Null
            ELSE /\ c.outcome = "incomplete"
                 /\ sportsNews = Null
                 /\ error = ErrorText(IncompleteFailure)

\* C6: a final buffer that is valid JSON with no barTalk key ends the request
\* with the completeness error, no final result and loading false.
MissingBarTalkRejected ==
    \A r \in Requests :
        LET c == calls[r]
            strict == JSONparse(c.accumulatedText) IN
        (/\ c.pc = "done" /\ c.outcome \in {"final", "incomplete"}
         /\ strict.ok /\ strict.val.t = "obj" /\ ~HasKey(strict.val, "barTalk")) =>
            /\ c.outcome = "incomplete"
            /\ error = ErrorText(IncompleteFailure)
            /\ sportsNews = Null
            /\ loading = FALSE

MissingBarTalkRejectedWitness ==
    \E r \in Requests :
        LET c == calls[r] IN
        /\ c.pc = "done" /\ c.outcome = "incomplete"
        /\ c.doc.form = "noBarTalk" /\ c.textStream = <<>>
        /\ JSONparse(c.accumulatedText).ok
        /\ partialData = JSONparse(c.accumulatedText).val
        /\ sportsNews = Null /\ error # Null

\* C7: every update of the state is made by the most recently started request,
\* and a request that is not the most recent one has returned.
StaleRequestsSilent ==
    /\ writer = started
    /\ \A r \in Requests : r < started => calls[r].pc = "done"

StaleRequestsSilentWitness ==
    /\ started = 2
    /\ writer = 2
    /\ calls[1].pc = "done"
    /\ calls[2].pc = "loop"
    /\ partialData = calls[2].partialParsed.val
    /\ NonNull(partialData)

\* A { and a later } with a "headline" key and no other } between them.
CompleteSpan(text) ==
    \E j \in 1..Len(text) :
        /\ text[j] = RBrace
        /\ \E h \in 1..(j - 3) :
              /\ text[h] = Quote /\ text[h + 1] = "headline" /\ text[h + 2] = Quote
              /\ \E i \in 1..(h - 1) :
                    /\ text[i] = LBrace
                    /\ \A k \in i..(j - 1) : text[k] # RBrace

LoopStep(r) ==
    /\ calls[r].pc = "loop"
    /\ calls'[r].pc = "loop"
    /\ calls'[r].accumulatedText # calls[r].accumulatedText

\* C9 as amended: after each fragment partialData is the Recoverer's result on
\* the buffer when that result is truthy; when it is null or another falsy
\* value, partialData keeps its value; error is left alone either way.
SurfacedOrKept ==
    [][\A r \in Requests :
          LoopStep(r) =>
              LET result == Recover(calls'[r].accumulatedText).val IN
              /\ error' = error
              /\ IF Truthy(result) THEN partialData' = result
                                   ELSE partialData' = partialData]_vars

\* C9 as claimed: the result is surfaced whenever it is non-null.
SurfacedWhenNonNull ==
    [][\A r \in Requests :
          LoopStep(r) =>
              LET result == Recover(calls'[r].accumulatedText).val IN
              /\ error' = error
              /\ IF NonNull(result) THEN partialData' = result
                                    ELSE partialData' = partialData]_vars

SurfacedOrKeptWitness ==
    \E r \in Requests :
        LET c == calls[r] IN
        /\ Streaming(c)
        /\ c.partialParsed.val = Null
        /\ NonNull(partialData)
        /\ error = Null

\* C11: a value stored as partialData or sportsNews is never changed in place:
\* each changes only by being replaced, by null or by the value the Recoverer
\* returned in that step, so the order of its events stays the Recoverer's.
NeverMutatedInPlace ==
    [][/\ sportsNews' # sportsNews =>
             \/ sportsNews' = Null
             \/ \E r \in Requests :
                   /\ calls[r].pc = "loop" /\ calls'[r].pc = "done"
                   /\ sportsNews' = Recover(calls[r].accumulatedText).val
       /\ partialData' # partialData =>
             \/ partialData' = Null
             \/ \E r \in Requests :
                   /\ LoopStep(r)
                   /\ partialData' = calls'[r].partialParsed.val]_vars

\* The call r returns in this step.
Returns(r) == calls[r].pc # "done" /\ calls'[r].pc = "done"

\* The two terminal outcomes, in the state the call returns to.
EndedWithResult(r) ==
    /\ sportsNews' = Recover(calls[r].accumulatedText).val
    /\ NonNull(sportsNews')
    /\ error' = Null
    /\ partialData' = Null

EndedWithError ==
    /\ error'.t = "str" /\ error'.s # <<>>
    /\ sportsNews' = Null

\* C12: every request that has set loading to true returns, whatever the stream
\* and wherever the transport fails; when it returns loading becomes false and
\* exactly one holds: sportsNews is the final value with error and partialData
\* null, or error is a non-empty message with sportsNews null.
OneTerminalOutcome ==
    /\ \A r \in Requests : (calls[r].pc = "streamText") ~> (calls[r].pc = "done")
    /\ [][\A r \in Requests :
             Returns(r) =>
                 /\ loading /\ ~loading'
                 /\ EndedWithResult(r) \/ EndedWithError
                 /\ ~(EndedWithResult(r) /\ EndedWithError)]_vars

OneTerminalOutcomeWitness ==
    /\ started = 2
    /\ calls[2].pc = "done" /\ calls[2].outcome = "transport"
    /\ calls[2].accumulatedText # <<>>
    /\ ~loading
    /\ error # Null /\ sportsNews = Null

\* C13: a transport Error whose message contains 'Web search failed' is surfaced
\* as 'Web search error: ' and its message; every other failure (another
\* transport failure, the completeness failure) as 'Error fetching sports news: '
\* and its message; error is set only when a call returns with a failure, so a
\* request surfaces at most one message.
FailureByCause ==
    [][/\ \A r \in Requests :
             (Returns(r) /\ calls'[r].outcome # "final") =>
                 LET e == calls'[r].caught IN
                 /\ error = Null
                 /\ calls'[r].outcome = "incomplete" => e = NewError(IncompleteFailure)
                 /\ error' = IF /\ calls'[r].outcome = "transport"
                                /\ e.isError
                                /\ \E i \in 1..Len(e.message) :
                                      e.message[i] = "Web search failed"
                             THEN Str(<<"Web search error: ">> \o e.message)
                             ELSE Str(<<"Error fetching sports news: ">> \o e.message)
       /\ error' # error =>
             \/ error' = Null
             \/ \E r \in Requests : Returns(r) /\ calls'[r].outcome # "final"]_vars

FailureByCauseWitness ==
    \E r \in Requests :
        /\ calls[r].pc = "done" /\ calls[r].outcome = "transport"
        /\ calls[r].caught = NewError(WebSearchFailure)
        /\ calls[r].accumulatedText # <<>>
        /\ error = Str(<<"Web search error: ", "Web search failed", ": rate limited">>)

\* The length of the text of a full document up to the closing brace of its
\* k-th event.
LenThroughEvent(d, k) ==
    Len(<<LBrace>> \o SummaryMember(d) \o <<Comma, Space>>
        \o <<Quote, "events", Quote, Colon, Space, LBrack>>
        \o Joined([j \in 1..k |-> EventText(d.events[j])], <<Comma>>))

\* How many events of the call's document have streamed in completely.
EventsStreamed(c) ==
    Cardinality({k \in 1..Len(c.doc.events) :
                    LenThroughEvent(c.doc, k) <= Len(c.accumulatedText)})

\* No quote, backslash, brace or bracket inside the strings of the event.
PlainStrings(e) ==
    \A f \in {e.category, e.headline, e.description, e.significance} :
        \A i \in 1..Len(f) :
            f[i] \notin {Quote, Backslash, Newline, LBrace, RBrace, LBrack, RBrack}

\* C14: on a prefix (failing strict decode) of a valid document, teams arrays
\* included, whose event strings hold no quote, backslash, brace or bracket,
\* when the first k events have streamed in completely and none has the
\* headline "Loading...", the Recoverer's events are exactly those k records
\* in document order.
CompleteEventsSurfaced ==
    \A r \in Requests :
        LET c == calls[r]
            k == EventsStreamed(c) IN
        (/\ c.pc = "loop" /\ ProperPrefix(c)
         /\ ~JSONparse(c.accumulatedText).ok
         /\ \A j \in 1..Len(c.doc.events) : PlainStrings(c.doc.events[j])
         /\ \A j \in 1..k : c.doc.events[j].headline # Sentinel) =>
            Get(c.partialParsed.val, "events") = EventsValue(SubSeq(c.doc.events, 1, k))

\* C15: within a call the chunks are taken in arrival order, each appended to
\* the buffer (the buffer and what is still to arrive always make up the
\* stream, so each buffer is a prefix of the next); each loop step calls the
\* Recoverer once on the new buffer and propagates its return in the same
\* step; the final attempt calls it once more on the unchanged full buffer.
OncePerFragment ==
    /\ [](\A r \in Requests :
             LET c == calls[r] IN
             /\ c.pc = "loop" => c.accumulatedText \o c.textStream = Serialize(c.doc)
             /\ (c.pc = "loop" /\ c.accumulatedText = <<>>) => c.invocations = 0
             /\ (c.pc = "loop" /\ c.accumulatedText # <<>>) =>
                    /\ c.invocations = 1
                    /\ c.partialParsed = Recover(c.accumulatedText)
             /\ (c.pc = "done" /\ c.outcome \in {"final", "incomplete"}) =>
                    c.invocations = (IF c.accumulatedText = <<>> THEN 1 ELSE 2))
    /\ [][\A r \in Requests :
             /\ LoopStep(r) =>
                    /\ \E n \in 1..Len(calls[r].textStream) :
                          /\ calls'[r].accumulatedText =
                                calls[r].accumulatedText \o SubSeq(calls[r].textStream, 1, n)
                          /\ calls'[r].textStream =
                                SubSeq(calls[r].textStream, n + 1, Len(calls[r].textStream))
                    /\ Truthy(calls'[r].partialParsed.val) =>
                          partialData' = calls'[r].partialParsed.val
             /\ (Returns(r) /\ calls[r].pc = "loop") =>
                    calls'[r].accumulatedText = calls[r].accumulatedText]_vars

OncePerFragmentWitness ==
    \E r \in Requests :
        LET c == calls[r] IN
        /\ c.pc = "done" /\ c.outcome = "final"
        /\ c.doc.form = "full" /\ c.textStream = <<>>
        /\ c.accumulatedText = Serialize(c.doc)
        /\ c.invocations = 2

\* The length of the text of a full document up to the closing quote of its
\* j-th barTalk string (for j = 0, up to the opening bracket of barTalk).
LenThroughTalk(d, j) ==
    Len(<<LBrace>> \o SummaryMember(d) \o <<Comma, Space>> \o EventsMember(d)
        \o <<Comma, Space>> \o <<Quote, "barTalk", Quote, Colon, Space, LBrack>>
        \o Joined([i \in 1..j |-> QuotedText(d.barTalk[i])], <<Comma>>))

\* How many barTalk strings of the call's document have streamed in completely.
TalkStreamed(c) ==
    Cardinality({j \in 1..Len(c.doc.barTalk) :
                    LenThroughTalk(c.doc, j) <= Len(c.accumulatedText)})

\* C16: on a prefix (failing strict decode) of a valid document in which the
\* barTalk array has opened and j of its strings have streamed in completely,
\* the Recoverer's barTalk is the first j strings of the document in order,
\* escaped quotes unescaped, whether or not the closing bracket has arrived.
BarTalkRecovered ==
    \A r \in Requests :
        LET c == calls[r]
            j == TalkStreamed(c) IN
        (/\ c.pc = "loop" /\ ProperPrefix(c)
         /\ ~JSONparse(c.accumulatedText).ok
         /\ LenThroughTalk(c.doc, 0) <= Len(c.accumulatedText)) =>
            Get(c.partialParsed.val, "barTalk") = StringsValue(SubSeq(c.doc.barTalk, 1, j))

\* The {...} spans the salvage path finds in the buffer.
SpansOf(text) ==
    IF eventsMatch(text).found THEN eventMatches(eventsMatch(text).cap) ELSE <<>>

\* The four-field record with the given values.
FourFields(c, h, d, g) ==
    Obj(<< <<<<"category">>, Str(c)>>, <<<<"headline">>, Str(h)>>,
           <<<<"description">>, Str(d)>>, <<<<"significance">>, Str(g)>> >>)

\* The value of a field: the extracted text, or the default when the field is
\* not found (Found), or when it is not found or is empty (FoundNonEmpty).
Found(m, text, default) == IF m.found THEN text ELSE default
FoundNonEmpty(m, text, default) == IF m.found /\ text # <<>> THEN text ELSE default

NotSentinel(event) == Get(event, "headline") # Str(Sentinel)

\* The call is streaming and its buffer fails strict decode.
OnSalvagePath(c) == Streaming(c) /\ ~JSONparse(c.accumulatedText).ok

\* C17 as amended: a span that fails strict decode gives the record of the
\* individually extracted category, headline, description and significance,
\* with 'Other', 'Loading...', 'Loading...' and 'Medium' for each field that is
\* not found or is empty; records whose headline is the sentinel are dropped,
\* so the salvage path returns no record with headline 'Loading...'.
FallbackByField ==
    \A r \in Requests :
        LET c == calls[r]
            spans == SpansOf(c.accumulatedText)
            Built(span) ==
                FourFields(
                    FoundNonEmpty(categoryMatch(span), categoryMatch(span).cap, <<"Other">>),
                    FoundNonEmpty(headlineMatch(span),
                                  ReplaceEscapedQuotes(headlineMatch(span).cap), Sentinel),
                    FoundNonEmpty(descriptionMatch(span),
                                  ReplaceEscapedQuotes(descriptionMatch(span).cap), Sentinel),
                    FoundNonEmpty(significanceMatch(span), significanceMatch(span).cap,
                                  <<"Medium">>))
            records == [k \in 1..Len(spans) |->
                          IF JSONparse(spans[k]).ok THEN JSONparse(spans[k]).val
                          ELSE Built(spans[k])] IN
        OnSalvagePath(c) =>
            /\ EventsOf(c.partialParsed.val) = SelectSeq(records, NotSentinel)
            /\ \A k \in 1..Len(EventsOf(c.partialParsed.val)) :
                  NotSentinel(EventsOf(c.partialParsed.val)[k])

\* C17 as claimed: the defaults stand in for the fields that are not found.
FallbackWhenNotFound ==
    \A r \in Requests :
        LET c == calls[r]
            spans == SpansOf(c.accumulatedText)
            Built(span) ==
                FourFields(
                    Found(categoryMatch(span), categoryMatch(span).cap, <<"Other">>),
                    Found(headlineMatch(span),
                          ReplaceEscapedQuotes(headlineMatch(span).cap), Sentinel),
                    Found(descriptionMatch(span),
                          ReplaceEscapedQuotes(descriptionMatch(span).cap), Sentinel),
                    Found(significanceMatch(span), significanceMatch(span).cap, <<"Medium">>))
            records == [k \in 1..Len(spans) |->
                          IF JSONparse(spans[k]).ok THEN JSONparse(spans[k]).val
                          ELSE Built(spans[k])] IN
        OnSalvagePath(c) =>
            /\ EventsOf(c.partialParsed.val) = SelectSeq(records, NotSentinel)
            /\ \A k \in 1..Len(EventsOf(c.partialParsed.val)) :
                  NotSentinel(EventsOf(c.partialParsed.val)[k])

FallbackByFieldWitness ==
    \E r \in Requests :
        LET c == calls[r] IN
        /\ OnSalvagePath(c)
        /\ c.doc.events = <<EmptyEvent>>
        /\ Len(SpansOf(c.accumulatedText)) = 1
        /\ ~JSONparse(SpansOf(c.accumulatedText)[1]).ok
        /\ EventsOf(c.partialParsed.val) =
              <<FourFields(<<"Other">>, <<"TeamC">>, Sentinel, <<"Medium">>)>>

\* The text holds "key", a colon and the symbol open, with optional white space.
KeyPresent(text, key, open) == \E i \in 1..Len(text) : KeyAt(text, i, key, open) # 0

\* The text holds a complete summary field: the key, a colon, an opening quote
\* and a later quote.
SummaryFieldFound(text) ==
    \E i \in 1..Len(text) :
        /\ KeyAt(text, i, "summary", Quote) # 0
        /\ \E e \in KeyAt(text, i, "summary", Quote)..Len(text) : text[e] = Quote

\* C18: on every buffer that fails strict decode the Recoverer returns a
\* non-null object whose events and barTalk are sequences and whose summary is
\* absent exactly when the buffer holds no complete summary field; a missing
\* key never makes the result null.
SalvageShape ==
    \A r \in Requests :
        LET c == calls[r]
            v == Recover(c.accumulatedText).val IN
        (c.pc = "loop" /\ ~JSONparse(c.accumulatedText).ok) =>
            /\ ~Recover(c.accumulatedText).thrown
            /\ v.t = "obj"
            /\ Get(v, "events").t = "arr"
            /\ Get(v, "barTalk").t = "arr"
            /\ IF SummaryFieldFound(c.accumulatedText)
               THEN Get(v, "summary").t = "str"
               ELSE Get(v, "summary") = Undefined
            /\ Streaming(c) => c.partialParsed.val = v

SalvageShapeWitness ==
    \E r \in Requests :
        LET c == calls[r] IN
        /\ c.pc = "loop"
        /\ c.accumulatedText = <<"Here", Colon>>
        /\ partialData = Obj(<< <<<<"summary">>, Undefined>>,
                                <<<<"events">>, Arr(<<>>)>>,
                                <<<<"barTalk">>, Arr(<<>>)>> >>)

EventCategories ==
    {<<"NFL">>, <<"College Football">>, <<"NBA">>, <<"MLB">>, <<"NHL">>, <<"Tennis">>,
     <<"Soccer">>, <<"Other">>}
EventSignificances == {<<"High">>, <<"Medium">>, <<"Low">>}

\* C19: every event record of a value the Recoverer returns has its
\* significance in {High, Medium, Low} and its category in the closed set.
EnumClosure ==
    \A r \in Requests :
        LET c == calls[r]
            es == EventsOf(c.partialParsed.val) IN
        Streaming(c) =>
            \A k \in 1..Len(es) :
                /\ Get(es[k], "category") \in {Str(x) : x \in EventCategories}
                /\ Get(es[k], "significance") \in {Str(x) : x \in EventSignificances}

\* C20: when the final buffer fails strict decode, the call ends with the final
\* result exactly when a non-empty summary was extracted from it; events and
\* barTalk of the accepted value are sequences, empty when their key never
\* appeared in the buffer.
SummaryAloneDecides ==
    \A r \in Requests :
        LET c == calls[r]
            text == c.accumulatedText
            v == Recover(text).val IN
        (/\ c.pc = "done" /\ c.outcome \in {"final", "incomplete"}
         /\ ~JSONparse(text).ok) =>
            /\ c.outcome = "final" <=>
                  (summaryMatch(text).found /\ summaryMatch(text).cap # <<>>)
            /\ c.outcome = "final" =>
                  /\ Get(v, "events").t = "arr" /\ Get(v, "barTalk").t = "arr"
                  /\ ~KeyPresent(text, "events", LBrack) => Get(v, "events") = Arr(<<>>)
                  /\ ~KeyPresent(text, "barTalk", LBrack) => Get(v, "barTalk") = Arr(<<>>)
                  /\ r = started /\ ~loading => /\ Get(sportsNews, "summary") = Get(v, "summary")
                                                /\ Get(sportsNews, "barTalk") = Get(v, "barTalk")

SummaryAloneDecidesWitness ==
    \E r \in Requests :
        LET c == calls[r] IN
        /\ c.pc = "done" /\ c.outcome = "final"
        /\ c.accumulatedText = <<LBrace>> \o SummaryMember(c.doc)
        /\ c.doc.form = "full"
        /\ sportsNews = Obj(<< <<<<"summary">>, Str(<<"NFL">>)>>,
                               <<<<"events">>, Arr(<<>>)>>,
                               <<<<"barTalk">>, Arr(<<>>)>> >>)
        /\ error = Null

\* C21: a call that ends with a failure (the completeness check or the
\* transport) sets error and leaves partialData as it is; partialData goes back
\* to null only with a final result or when the next call starts, and error
\* only when the next call starts, so the message and the last partial
\* result stay displayed together until then.
PartialKeptOnFailure ==
    [][/\ \A r \in Requests :
             Returns(r) =>
                 IF calls'[r].outcome = "final"
                 THEN partialData' = Null
                 ELSE /\ partialData' = partialData
                      /\ error' # Null
                      /\ ~loading'
       /\ (partialData # Null /\ partialData' = Null) =>
             \/ started' = started + 1
             \/ \E r \in Requests : Returns(r) /\ calls'[r].outcome = "final"
       /\ (error # Null /\ error' = Null) => started' = started + 1]_vars

PartialKeptOnFailureWitness ==
    \E r \in Requests :
        LET c == calls[r] IN
        /\ c.pc = "done" /\ c.outcome = "transport"
        /\ NonNull(c.partialParsed.val)
        /\ Get(partialData, "summary") = Str(<<"NFL">>)
        /\ error # Null
        /\ sportsNews = Null
        /\ ~loading

\* C22: in the non-streaming variant the text is accepted as the result when
\* the whole text is valid JSON, or else when its first { to its last } is
\* valid JSON, with no test of summary, events or barTalk; otherwise the call
\* ends with error set ('Failed to parse structured response' when the text
\* has no {...} span, the decoder's message when the span is not valid JSON)
\* and sportsNews null; loading is false after every outcome.
VariantAccepts ==
    [][\A r \in Requests :
          Returns(r) =>
              LET text == calls'[r].text
                  first == FirstLBrace(text)
                  last == LastRBrace(text)
                  hasSpan == first # 0 /\ last > first
                  span == IF hasSpan THEN SubSeq(text, first, last) ELSE <<>> IN
              /\ ~loading'
              /\ calls'[r].outcome # "transport" =>
                    IF JSONparse(text).ok
                    THEN sportsNews' = JSONparse(text).val /\ error' = Null
                    ELSE IF hasSpan /\ JSONparse(span).ok
                    THEN sportsNews' = JSONparse(span).val /\ error' = Null
                    ELSE /\ sportsNews' = Null
                         /\ error' = Str(<<"Error fetching sports news: ">>
                                         \o (IF hasSpan THEN DecoderFailure
                                                        ELSE NoSpanFailure))
              /\ calls'[r].outcome = "transport" =>
                    sportsNews' = Null /\ error' # Null]_vars

VariantAcceptsWitness ==
    \E r \in Requests :
        /\ calls[r].pc = "done" /\ calls[r].outcome = "extracted"
        /\ calls[r].text = Serialize(Doc("prose", BaseSummary, BaseEvents, BaseTalk))
        /\ sportsNews = DocValue(Doc("full", BaseSummary, BaseEvents, BaseTalk))
        /\ error = Null /\ ~loading

====
